---- MODULE Spec2Model ----
(***************************************************************************)
(* Model of cvDisplacementMapFilter/main.cpp: the displacement remapper    *)
(* (displacementMapFilter, with getComponent), the alpha compositor        *)
(* (overlayImage) and the animation driver (main).                         *)
(*                                                                         *)
(* An image (cv::Mat) is a record [rows, cols, type, px] whose px maps the *)
(* (row, column) pairs <<0..rows-1, 0..cols-1>> to pixels; a pixel is the   *)
(* tuple of its channel bytes (B, G, R and, with 4 channels, alpha).       *)
(* Mat::at<T>(i, j) takes the row first, so the code's loop variable x of  *)
(* displacementMapFilter is a row index and y a column index.              *)
(***************************************************************************)
EXTENDS Integers, Sequences, FiniteSets, TLC

\* ------------------------------------------------------------------ bounds

\* Largest number of pixels (rows * cols) of an image drawn as an input.
MaxPixels == 4

\* ------------------------------------------------------------- cv::Mat

Channels(type) ==
    CASE type = "CV_8UC3"  -> 3
      [] type = "CV_8UC4"  -> 4
      [] type = "CV_16UC4" -> 4
      [] OTHER             -> 0

Coords(rows, cols) == (0 .. rows - 1) \X (0 .. cols - 1)

\* A default-constructed cv::Mat: no rows, no columns, no data.
EmptyMat == [rows |-> 0, cols |-> 0, type |-> "none", px |-> << >>]

Mat(rows, cols, type, px) == [rows |-> rows, cols |-> cols, type |-> type, px |-> px]

\* The (rows, cols) pairs of the images drawn as inputs.
Dims == {d \in (1 .. MaxPixels) \X (1 .. MaxPixels) : d[1] * d[2] <= MaxPixels}

\* ------------------------------------------------------- getComponent

getComponent(bgr_pixel, bgr_component) ==
    CASE bgr_component = 0 -> bgr_pixel[1]
      [] bgr_component = 1 -> bgr_pixel[2]
      [] bgr_component = 2 -> bgr_pixel[3]
      [] OTHER             -> 0

\* ---------------------------------------------- displacementMapFilter

\* C++ integer division: the quotient is truncated toward zero.
TruncDiv(a, b) == IF a >= 0 THEN a \div b ELSE -((-a) \div b)

\* Mutant of Displace: the component is not centred on 128.
Displace_uncentred(i, component, scale) == i + TruncDiv(component * scale, 256)

\* i + (component - 128) * scale / 256, as in lines 109 and 113. The product
\* is an int; with |component - 128| <= 128 it stays far inside 32 bits for
\* the scales drawn as inputs.
Displace(i, component, scale) == i + TruncDiv((component - 128) * scale, 256)

\* Mutant of ClampIndex: the lower test is inverted.
ClampIndex_inverted(d, n) == IF d > 0 THEN 0 ELSE IF d >= n THEN n ELSE d

\* The two ifs that follow each displacement (lines 110-111, 114-115).
ClampIndex(d, n) == IF d < 0 THEN 0 ELSE IF d >= n THEN n ELSE d

\* The (row, column) read from the target for output pixel (x, y).
SampleAt(m, x, y, cX, cY, sX, sY, rows, cols) ==
    << ClampIndex(Displace(x, getComponent(m.px[<<x, y>>], cX), sX), rows),
       ClampIndex(Displace(y, getComponent(m.px[<<x, y>>], cY), sY), cols) >>

\* Whether (row, column) s is an element of an image of rows x cols.
InImage(s, rows, cols) == s[1] >= 0 /\ s[1] < rows /\ s[2] >= 0 /\ s[2] < cols

\* Mutant of BadComponents: a call is refused only when both are invalid.
BadComponents_both(cX, cY) == (cX < 0 \/ cX > 2) /\ (cY < 0 \/ cY > 2)

\* The first check of displacementMapFilter (line 87).
BadComponents(cX, cY) == cX < 0 \/ cX > 2 \/ cY < 0 \/ cY > 2

\* The second check of displacementMapFilter (line 93).
BadFormat(m, t) == t.cols # m.cols \/ t.rows # m.rows \/ t.type # "CV_8UC4"

\* What a read of the target outside its elements can return: Mat::at does
\* not check its indices, so the bytes are whatever lies at that address.
UBPixels == {<<0, 0, 0, 0>>, <<255, 255, 255, 255>>}

\* Position of output pixel (x, y) in the order the two loops visit them.
VisitOrder(x, y, cols) == x * cols + y

\* Every way a call of displacementMapFilter can end, as records
\* [status, output, samples]: output is the output Mat after the call and
\* samples maps each output pixel visited to the (row, column) read from the
\* target for it. A read outside the target is undefined behaviour: it
\* either yields some bytes (one of UBPixels, chosen per read) or the
\* process dies at the first such read.
FilterOutcomes(m, t, cX, cY, sX, sY, out) ==
    IF BadComponents(cX, cY)
    THEN {[status |-> "returned", output |-> out, samples |-> << >>]}
    ELSE IF BadFormat(m, t)
    THEN {[status |-> "returned", output |-> out, samples |-> << >>]}
    ELSE
      LET rows == t.rows
          cols == t.cols
          all  == Coords(rows, cols)
          smp  == [c \in all |-> SampleAt(m, c[1], c[2], cX, cY, sX, sY, rows, cols)]
          oor  == {c \in all : ~InImage(smp[c], rows, cols)}
          first == CHOOSE c \in oor : \A d \in oor :
                       VisitOrder(c[1], c[2], cols) <= VisitOrder(d[1], d[2], cols)
          done == {c \in all : VisitOrder(c[1], c[2], cols)
                                  <= VisitOrder(first[1], first[2], cols)}
          finished ==
              {[status  |-> "returned",
                output  |-> Mat(rows, cols, t.type,
                                [c \in all |-> IF c \in oor THEN g[c] ELSE t.px[smp[c]]]),
                samples |-> smp] : g \in [oor -> UBPixels]}
          died ==
              IF oor = {} THEN {}
              ELSE {[status |-> "crashed", output |-> out,
                     samples |-> [c \in done |-> smp[c]]]}
      IN finished \cup died

\* ------------------------------------------------------- overlayImage

Max(a, b) == IF a >= b THEN a ELSE b

\* Mutant of AlphaOf: the byte at offset 2 (red) is read instead of offset 3.
AlphaOf_red(foregroundPx) == foregroundPx[3]

\* The byte whose quotient by 255. is the opacity (line 36).
AlphaOf(foregroundPx) == foregroundPx[4]

\* Mutant of BlendChannel: the two weights are exchanged.
BlendChannel_swapped(backgroundPx, foregroundPx, alpha) ==
    (backgroundPx * alpha + foregroundPx * (255 - alpha)) \div 255

\* backgroundPx * (1. - opacity) + foregroundPx * opacity stored into an
\* unsigned char (line 42), opacity being alpha / 255. For alpha 128 and 255
\* (and every pair of bytes) the double expression truncates to this
\* quotient; other alphas, where rounding of the double matters, are not
\* drawn as inputs.
BlendChannel(backgroundPx, foregroundPx, alpha) ==
    (backgroundPx * (255 - alpha) + foregroundPx * alpha) \div 255

\* The loop over c (lines 39-43): nothing is written unless opacity > 0.
BlendPixel(backgroundPixel, foregroundPixel, channels) ==
    IF AlphaOf(foregroundPixel) > 0
    THEN [c \in 1 .. channels |->
             BlendChannel(backgroundPixel[c], foregroundPixel[c], AlphaOf(foregroundPixel))]
    ELSE backgroundPixel

\* Mutant of RowDone: the row is left one column early.
RowDone_early(fX, fg) == fX >= fg.cols - 1

\* The break of the inner loop (line 32).
RowDone(fX, fg) == fX >= fg.cols

\* The break of the outer loop (line 24).
ScanDone(fY, fg) == fY >= fg.rows

\* The inner loop from column x on (lines 28-44). acc is [frame, visited]:
\* the output so far and the background (x, y) blended so far.
RECURSIVE OverlayCols(_, _, _, _, _, _)
OverlayCols(bg, fg, loc, y, x, acc) ==
    IF ~(x < bg.cols) THEN acc
    ELSE IF RowDone(x - loc.x, fg) THEN acc
    ELSE OverlayCols(bg, fg, loc, y, x + 1,
            [acc EXCEPT
                !.frame.px[<<y, x>>] = BlendPixel(bg.px[<<y, x>>],
                                                  fg.px[<<y - loc.y, x - loc.x>>],
                                                  Channels(bg.type)),
                !.visited = @ \cup {<<x, y>>}])

\* The outer loop from row y on (lines 20-45).
RECURSIVE OverlayRows(_, _, _, _, _)
OverlayRows(bg, fg, loc, y, acc) ==
    IF ~(y < bg.rows) THEN acc
    ELSE IF ScanDone(y - loc.y, fg) THEN acc
    ELSE OverlayRows(bg, fg, loc, y + 1,
            OverlayCols(bg, fg, loc, y, Max(loc.x, 0), acc))

\* overlayImage (lines 15-46): the output starts as a copy of the
\* background; the result is [frame, visited].
overlayImage(bg, fg, loc) ==
    OverlayRows(bg, fg, loc, Max(loc.y, 0), [frame |-> bg, visited |-> {}])

\* ------------------------------------------------------------------ state

VARIABLES
    \* displacementMapFilter: its arguments, its output argument, the reads
    \* it made of the target, and whether it was called, returned or died.
    map, target, componentX, componentY, scaleX, scaleY, output, samples, fpc,
    \* overlayImage: its arguments, its output argument, the background
    \* coordinates whose foreground pixel it read, and its position.
    background, foreground, location, frame, visited, opc,
    \* main: what imread finds in the two files, the sliding offset, the
    \* number of frames handed to imshow, the size of the last of them, the
    \* exit code and the position.
    mapFile, targetFile, offset_x, framesShown, shown, exitCode, pc

filterVars  == <<map, target, componentX, componentY, scaleX, scaleY, output, samples, fpc>>
overlayVars == <<background, foreground, location, frame, visited, opc>>
mainVars    == <<mapFile, targetFile, offset_x, framesShown, shown, exitCode, pc>>
vars        == <<filterVars, overlayVars, mainVars>>

\* ------------------------------------------------------------------ inputs

\* Map pixels (B, G, R): channel 0 is 0 or 255, channel 1 is always 128,
\* channel 2 is 128 or 255.
MapPixels == {<<0, 128, 128>>, <<255, 128, 255>>}

MapImages(rows, cols) ==
    {Mat(rows, cols, "CV_8UC3", px) : px \in [Coords(rows, cols) -> MapPixels]}

\* The target: every cell a colour of its own, alpha 0, 128 or 255.
TargetPixelAt(x, y) == <<16 * x + y + 1, 100 + y, 200 - x, ((x + y) % 3) * 128 - ((x + y) % 3) \div 2>>

TargetImage(rows, cols, type) ==
    Mat(rows, cols, type,
        [c \in Coords(rows, cols) |->
            SubSeq(TargetPixelAt(c[1], c[2]), 1, Channels(type))])

TargetTypes == {"CV_8UC3", "CV_8UC4", "CV_16UC4"}

ComponentValues == -1 .. 3

ScaleValues == {-3, 0, 20}

\* What the caller's output Mat holds before the call.
PriorOutputs ==
    {EmptyMat, Mat(1, 1, "CV_8UC4", [c \in Coords(1, 1) |-> <<7, 7, 7, 7>>])}

\* ------------------------------------------------- the three programs idle

FilterIdle ==
    /\ map = EmptyMat /\ target = EmptyMat
    /\ componentX = 0 /\ componentY = 0 /\ scaleX = 0 /\ scaleY = 0
    /\ output = EmptyMat /\ samples = << >> /\ fpc = "idle"

OverlayIdle ==
    /\ background = EmptyMat /\ foreground = EmptyMat
    /\ location = [x |-> 0, y |-> 0]
    /\ frame = EmptyMat /\ visited = {} /\ opc = "idle"

MainIdle ==
    /\ mapFile = EmptyMat /\ targetFile = EmptyMat
    /\ offset_x = 0 /\ framesShown = 0 /\ shown = <<0, 0>>
    /\ exitCode = 0 /\ pc = "idle"

\* ------------------------------------- specification of the remapper alone

InitFilter ==
    /\ \E d \in Dims :
         /\ map \in MapImages(d[1], d[2])
         /\ \E e \in {<<0, 0>>, <<1, 0>>, <<0, 1>>} : \E type \in TargetTypes :
              target = TargetImage(d[1] + e[1], d[2] + e[2], type)
    /\ componentX \in ComponentValues
    /\ componentY \in ComponentValues
    /\ scaleX \in ScaleValues
    /\ scaleY \in ScaleValues
    /\ output \in PriorOutputs
    /\ samples = << >>
    /\ fpc = "call"
    /\ OverlayIdle
    /\ MainIdle

\* One call of displacementMapFilter (lines 85-119).
displacementMapFilter ==
    /\ fpc = "call"
    /\ \E o \in FilterOutcomes(map, target, componentX, componentY, scaleX, scaleY, output) :
         /\ fpc' = o.status
         /\ output' = o.output
         /\ samples' = o.samples
    /\ UNCHANGED <<map, target, componentX, componentY, scaleX, scaleY>>
    /\ UNCHANGED <<overlayVars, mainVars>>

NextFilter == displacementMapFilter

SpecFilter == InitFilter /\ [][NextFilter]_vars

\* ------------------------------------------------ claims on the remapper

\* The call passed both precondition checks of displacementMapFilter.
CallAccepted ==
    /\ componentX \in {0, 1, 2} /\ componentY \in {0, 1, 2}
    /\ target.cols = map.cols /\ target.rows = map.rows
    /\ target.type = "CV_8UC4"

\* Channel c of the map is 128 at every map pixel.
ChannelIs128(c) == \A p \in DOMAIN map.px : map.px[p][c + 1] = 128

\* C1: in a call that passes the precondition checks, every (row, column)
\* read from the target lies inside the target: 0 <= dx <= rows - 1 and
\* 0 <= dy <= cols - 1.
C1_SamplesInRange ==
    (fpc # "call" /\ CallAccepted) =>
        \A c \in DOMAIN samples : InImage(samples[c], target.rows, target.cols)

\* C2: with scaleX = 0 and scaleY = 0 an accepted call returns an output
\* equal to the target (dimensions, format and all four channels of every
\* pixel), whatever the components and the map.
C2_ZeroScaleIdentity ==
    (fpc # "call" /\ CallAccepted /\ scaleX = 0 /\ scaleY = 0) =>
        (fpc = "returned" /\ output = target)

C2_Witness ==
    /\ fpc = "returned" /\ CallAccepted /\ scaleX = 0 /\ scaleY = 0
    /\ target.rows = 2 /\ target.cols = 2
    /\ componentX = 0 /\ componentY = 2
    /\ \E p \in DOMAIN map.px : map.px[p] = <<255, 128, 255>>
    /\ output = target

\* C3: a call whose components are outside {0,1,2}, or whose map and target
\* differ in width or height, or whose target is not CV_8UC4, returns with
\* the output, the map and the target as they were before the call.
C3_RejectedCallIsNoOp ==
    [][(fpc = "call" /\ ~CallAccepted) =>
          (fpc' = "returned" /\ output' = output /\ map' = map /\ target' = target)]_vars

C3_Witness ==
    /\ fpc = "returned" /\ ~CallAccepted
    /\ componentX \in {0, 1, 2} /\ componentY \in {0, 1, 2}
    /\ target.type = "CV_8UC4"
    /\ target.rows = map.rows /\ target.cols # map.cols
    /\ output # EmptyMat /\ output \in PriorOutputs

\* C8: when the map channel selected for each axis is 128 at every map
\* pixel, an accepted call returns an output equal to the target for any
\* scales, the last row and column included.
C8_NeutralMapIdentity ==
    (fpc # "call" /\ CallAccepted /\ ChannelIs128(componentX) /\ ChannelIs128(componentY)) =>
        (fpc = "returned" /\ output = target)

C8_Witness ==
    /\ fpc = "returned" /\ CallAccepted
    /\ componentX = 2 /\ componentY = 2 /\ scaleX = 20 /\ scaleY = 20
    /\ ChannelIs128(2)
    /\ target.rows = 2 /\ target.cols = 2
    /\ output = target

\* ----------------------------------- specification of the compositor alone

\* Largest distance, on each axis, of the foreground's origin from the
\* background's.
MaxShift == 2

\* The background: an opaque image, every cell a colour of its own.
BackgroundPixelAt(x, y) == <<40 + 16 * x + y, 90 - y, 150 + x>>

BackgroundImage(rows, cols) ==
    Mat(rows, cols, "CV_8UC3",
        [c \in Coords(rows, cols) |-> BackgroundPixelAt(c[1], c[2])])

AlphaValues == {0, 128, 255}

\* Foregrounds: the target's colours, each pixel's alpha drawn freely.
ForegroundImages(rows, cols) ==
    {Mat(rows, cols, "CV_8UC4",
         [c \in Coords(rows, cols) |->
             <<TargetPixelAt(c[1], c[2])[1], TargetPixelAt(c[1], c[2])[2],
               TargetPixelAt(c[1], c[2])[3], a[c]>>]) :
        a \in [Coords(rows, cols) -> AlphaValues]}

InitOverlay ==
    /\ \E d \in Dims : background = BackgroundImage(d[1], d[2])
    /\ \E d \in Dims : foreground \in ForegroundImages(d[1], d[2])
    /\ location \in [x : -MaxShift .. MaxShift, y : -MaxShift .. MaxShift]
    /\ frame = EmptyMat
    /\ visited = {}
    /\ opc = "call"
    /\ FilterIdle
    /\ MainIdle

\* One call of overlayImage.
overlayImageCall ==
    /\ opc = "call"
    /\ \E r \in {overlayImage(background, foreground, location)} :
         /\ frame' = r.frame
         /\ visited' = r.visited
    /\ opc' = "returned"
    /\ UNCHANGED <<background, foreground, location>>
    /\ UNCHANGED <<filterVars, mainVars>>

NextOverlay == overlayImageCall

SpecOverlay == InitOverlay /\ [][NextOverlay]_vars

\* ---------------------------------------------- claims on the compositor

\* Whether background (row, column) c lies under the placed foreground.
UnderForeground(c) ==
    InImage(<<c[1] - location.y, c[2] - location.x>>, foreground.rows, foreground.cols)

\* C4: a foreground whose alpha is 0 everywhere leaves the output equal to
\* the background, for any location and any foreground size.
C4_TransparentKeepsBackground ==
    (opc = "returned" /\ \A p \in DOMAIN foreground.px : foreground.px[p][4] = 0) =>
        frame = background

C4_Witness ==
    /\ opc = "returned"
    /\ \A p \in DOMAIN foreground.px : foreground.px[p][4] = 0
    /\ location.x < 0 /\ location.y > 0
    /\ visited # {}
    /\ frame = background

\* C5: at location (0,0), a foreground of alpha 255 everywhere that fits in
\* the background gives an output whose three colour channels are the
\* foreground's inside the foreground's extent and the background's elsewhere.
C5_OpaqueReplaces ==
    (/\ opc = "returned"
     /\ location = [x |-> 0, y |-> 0]
     /\ \A p \in DOMAIN foreground.px : foreground.px[p][4] = 255
     /\ foreground.rows <= background.rows /\ foreground.cols <= background.cols) =>
        /\ frame.rows = background.rows /\ frame.cols = background.cols
        /\ \A c \in Coords(background.rows, background.cols) : \A ch \in 1 .. 3 :
              frame.px[c][ch] = IF InImage(c, foreground.rows, foreground.cols)
                                THEN foreground.px[c][ch]
                                ELSE background.px[c][ch]

C5_Witness ==
    /\ opc = "returned"
    /\ location = [x |-> 0, y |-> 0]
    /\ \A p \in DOMAIN foreground.px : foreground.px[p][4] = 255
    /\ foreground.rows = 1 /\ foreground.cols = 1
    /\ background.rows = 2 /\ background.cols = 2
    /\ frame.px[<<0, 0>>] = <<1, 100, 200>>
    /\ frame.px[<<1, 1>>] = background.px[<<1, 1>>]

\* The scan over all background coordinates that blends a pixel only when
\* its foreground coordinate is inside the foreground.
FullScanVisited ==
    {<<c[2], c[1]>> : c \in {d \in Coords(background.rows, background.cols) : UnderForeground(d)}}

FullScanFrame ==
    Mat(background.rows, background.cols, background.type,
        [c \in Coords(background.rows, background.cols) |->
            IF UnderForeground(c)
            THEN BlendPixel(background.px[c],
                            foreground.px[<<c[1] - location.y, c[2] - location.x>>],
                            Channels(background.type))
            ELSE background.px[c]])

\* C6: the early-exit scan visits exactly the (x, y) the full scan blends,
\* and yields the same output, for every location.
C6_EarlyExitEqualsFullScan ==
    opc = "returned" => (visited = FullScanVisited /\ frame = FullScanFrame)

C6_Witness ==
    /\ opc = "returned"
    /\ location.x < 0 /\ location.y < 0
    /\ foreground.rows = 2 /\ foreground.cols = 2
    /\ background.rows = 2 /\ background.cols = 2
    /\ visited = {<<0, 0>>}
    /\ frame # background

\* ------------------------------------------------------------------- main

\* Largest map read from map.jpg.
MaxMapRows == 2
MaxMapCols == 8

\* What imread("map.jpg") returns: an empty Mat when the file cannot be
\* read, else a 3-channel image. Its pixels are drawn when a frame crops
\* them (CropsOf), so px is left empty here.
MapFiles ==
    {EmptyMat} \cup
    {Mat(r, c, "CV_8UC3", << >>) : r \in 1 .. MaxMapRows, c \in 1 .. MaxMapCols}

\* What imread("target.png", -1) returns: an empty Mat, or the image in the
\* format the file has.
TargetFiles ==
    {EmptyMat} \cup
    {TargetImage(d[1], d[2], type) : d \in Dims, type \in TargetTypes}

\* Mat::empty().
IsEmpty(m) == m.rows = 0 \/ m.cols = 0

\* The check of line 142.
NoAlphaChannel(t) == Channels(t.type) # 4

\* The check of line 148.
TargetTooLarge(m, t) == t.cols > m.cols \/ t.rows > m.rows

\* The step of line 179.
OffsetStep == 3

\* Mutant of LoopEnds: the target's width is left out of the test.
LoopEnds_mapOnly(m, t, offset) == m.cols <= offset

\* The test of line 180.
LoopEnds(m, t, offset) == (m.cols - t.cols) <= offset

\* Whether cv::Rect(offset, 0, t.cols, t.rows) lies inside m, which
\* Mat::operator()(Rect) asserts (line 162).
RoiInside(m, t, offset) ==
    0 <= offset /\ offset + t.cols <= m.cols /\ t.rows <= m.rows

\* The contents map(roi) can have: the map's pixels under the window.
CropsOf(t) == MapImages(t.rows, t.cols)

\* What waitKey(33) can return: no key, ESC, 'q', ESC with a modifier flag.
KeyCodes == {-1, 27, 113, 1048603}

\* The conversion of waitKey's int to char (line 174).
ToChar(k) == ((k + 128) % 256) - 128

\* Exit statuses of a process killed by SIGABRT or SIGSEGV.
CrashCodes == {134, 139}

InitMain ==
    /\ mapFile \in MapFiles
    /\ targetFile \in TargetFiles
    /\ offset_x = 0
    /\ framesShown = 0
    /\ shown = <<0, 0>>
    /\ exitCode = 0
    /\ pc = "load_map"
    /\ FilterIdle
    /\ OverlayIdle

Exit(code) ==
    /\ pc' = "exited"
    /\ exitCode' = code
    /\ UNCHANGED <<mapFile, targetFile, offset_x, framesShown, shown>>

Goto(label) ==
    /\ pc' = label
    /\ UNCHANGED <<mapFile, targetFile, offset_x, framesShown, shown, exitCode>>

\* Lines 125-131.
LoadMap ==
    /\ pc = "load_map"
    /\ IF IsEmpty(mapFile) THEN Exit(-1) ELSE Goto("load_target")
    /\ UNCHANGED <<filterVars, overlayVars>>

\* Lines 134-140.
LoadTarget ==
    /\ pc = "load_target"
    /\ IF IsEmpty(targetFile) THEN Exit(-1) ELSE Goto("check_channels")
    /\ UNCHANGED <<filterVars, overlayVars>>

\* Lines 142-146.
CheckChannels ==
    /\ pc = "check_channels"
    /\ IF NoAlphaChannel(targetFile) THEN Exit(-1) ELSE Goto("check_size")
    /\ UNCHANGED <<filterVars, overlayVars>>

\* Lines 148-156.
CheckSize ==
    /\ pc = "check_size"
    /\ IF TargetTooLarge(mapFile, targetFile) THEN Exit(-1) ELSE Goto("loop")
    /\ UNCHANGED <<filterVars, overlayVars>>

\* The process dies: an assertion of OpenCV fails or a read faults.
Crash ==
    /\ pc' = "crashed"
    /\ exitCode' \in CrashCodes
    /\ UNCHANGED <<mapFile, targetFile, offset_x, framesShown, shown>>

\* One iteration of the loop (lines 158-182): crop, remap, composite, show,
\* wait for a key, advance. The frame and the remapped image are locals.
Frame ==
    /\ pc = "loop"
    /\ IF ~RoiInside(mapFile, targetFile, offset_x)
       THEN Crash
       ELSE \E cropped_map \in CropsOf(targetFile) :
            \E o \in FilterOutcomes(cropped_map, targetFile, 2, 2, 20, 20, EmptyMat) :
              IF o.status = "crashed"
              THEN Crash
              ELSE \E r \in {overlayImage(cropped_map, o.output, [x |-> 0, y |-> 0])} :
                      /\ framesShown' = framesShown + 1
                      /\ shown' = <<r.frame.rows, r.frame.cols>>
                      /\ \E key \in KeyCodes :
                           IF ToChar(key) = 27
                           THEN /\ pc' = "exited" /\ exitCode' = 0
                                /\ offset_x' = offset_x
                           ELSE /\ offset_x' = offset_x + OffsetStep
                                /\ IF LoopEnds(mapFile, targetFile, offset_x + OffsetStep)
                                   THEN pc' = "exited" /\ exitCode' = 0
                                   ELSE pc' = "loop" /\ exitCode' = exitCode
                      /\ UNCHANGED <<mapFile, targetFile>>
    /\ UNCHANGED <<filterVars, overlayVars>>

NextMain == LoadMap \/ LoadTarget \/ CheckChannels \/ CheckSize \/ Frame

SpecMain == InitMain /\ [][NextMain]_vars

\* The process keeps running until it exits or dies.
FairSpecMain == SpecMain /\ WF_vars(NextMain)

Spec == SpecMain

\* ------------------------------------------------------ claims on main

\* One of the four startup failures holds of the two files.
StartupFailure ==
    \/ IsEmpty(mapFile)
    \/ IsEmpty(targetFile)
    \/ Channels(targetFile.type) # 4
    \/ targetFile.cols > mapFile.cols
    \/ targetFile.rows > mapFile.rows

\* C7: the process ends with code -1 exactly on a startup failure, then
\* without having shown a frame, and with code 0 in every other run.
C7_ExitCodes ==
    pc \in {"exited", "crashed"} =>
        /\ (exitCode = -1) <=> StartupFailure
        /\ StartupFailure => framesShown = 0
        /\ ~StartupFailure => exitCode = 0

\* C9: at the start of every frame the crop rectangle lies inside the map.
C9_CropInsideMap ==
    pc = "loop" =>
        /\ 0 <= offset_x
        /\ offset_x + targetFile.cols <= mapFile.cols
        /\ targetFile.rows <= mapFile.rows

C9_Witness ==
    /\ pc = "loop" /\ framesShown = 2 /\ offset_x = 6
    /\ targetFile.cols = 1 /\ mapFile.cols = 8

\* C10: once the startup checks have passed, the process eventually exits
\* with code 0, having shown at least one frame.
C10_LoopExitsWithZero ==
    (pc = "loop") ~> (pc = "exited" /\ exitCode = 0 /\ framesShown >= 1)

====
